---- MODULE Spec2Model ----
(***************************************************************************)
(* Guest control agent of aleph-vm (runtimes/aleph-alpine-3.13-python/     *)
(* init1.py): the length-prefixed configuration protocol, system setup,    *)
(* code loading, the setup acknowledgment and the instruction server with  *)
(* its two execution bridges, as a state machine.                          *)
(*                                                                         *)
(* Bytes are symbolic: "0".."9" are the ASCII digits, "\n" the newline,    *)
(* "M1" the msgpack header of a one-pair map and "x" a one-byte msgpack    *)
(* object.  Every step is the run of one task between two suspension       *)
(* points of the event loop (or one blocking call of main before the       *)
(* server is started).                                                     *)
(***************************************************************************)
EXTENDS Integers, Sequences, FiniteSets, TLC

\* ---------------------------------------------------------------- bounds
\* Longest payload of a setup message whose bytes are enumerated.
MaxLen == 3
\* Most digits the host puts in a length header (zero padded).
MaxDigits == 10
\* Connections the host opens to the instruction server.
MaxConns == 2
\* Most messages the in-process application passes to send().
MaxSends == 3

\* The host makes at most MaxWrites writes on an instruction connection.
MaxWrites == 3
\* Requests the sidecars handle in one run.
MaxRequests == 2
\* Most volumes a descriptor has.
MaxVolumes == 2

\* ------------------------------------------------------ program constants
\* receive_data_length: for _ in range(9)
HeaderLimit_Wide == 9 + 2
HeaderLimit == 9
\* run_executable_http: if tries > 20: raise
RetryLimit == 20

\* handle_instruction: reader.read(1000_1000)
ReadLimit == 10001000

\* ------------------------------------------------------------ bytes
Digit == {"0", "1", "2", "3", "4", "5", "6", "7", "8", "9"}
NL == "\n"

DigitVal(ch) ==
    CASE ch = "0" -> 0 [] ch = "1" -> 1 [] ch = "2" -> 2 [] ch = "3" -> 3
      [] ch = "4" -> 4 [] ch = "5" -> 5 [] ch = "6" -> 6 [] ch = "7" -> 7
      [] ch = "8" -> 8 [] ch = "9" -> 9

DigitChar(n) ==
    CASE n = 0 -> "0" [] n = 1 -> "1" [] n = 2 -> "2" [] n = 3 -> "3"
      [] n = 4 -> "4" [] n = 5 -> "5" [] n = 6 -> "6" [] n = 7 -> "7"
      [] n = 8 -> "8" [] n = 9 -> "9"

\* The decimal digits of n, most significant first (what the host writes).
RECURSIVE Decimal(_)
Decimal(n) == IF n < 10 THEN <<DigitChar(n)>>
              ELSE Append(Decimal(n \div 10), DigitChar(n % 10))

\* The header the host writes for a payload of n bytes, zero padded to d
\* digits (d = 0: no digit at all).
Header(n, d) ==
    IF d = 0 THEN <<>>
    ELSE [i \in 1..(d - Len(Decimal(n))) |-> "0"] \o Decimal(n)

\* int(buffer): the value of a string of ASCII digits; -1 stands for the
\* ValueError int() raises on an empty string or on a non-digit.
RECURSIVE IntOf(_)
IntOf(buf) ==
    IF Len(buf) = 0 THEN 0
    ELSE IntOf(SubSeq(buf, 1, Len(buf) - 1)) * 10 + DigitVal(buf[Len(buf)])

int(buf) ==
    IF Len(buf) = 0 \/ \E i \in 1..Len(buf) : buf[i] \notin Digit
    THEN -1
    ELSE IntOf(buf)

\* ------------------------------------------------- configuration payload
Encoding == {"plain", "zip", "squashfs"}
Interface == {"asgi", "executable"}
\* Values the host can put in the fields, the unsupported ones included.
EncodingValues == Encoding \cup {"tar"}
InterfaceValues == Interface \cup {"wsgi"}
\* Whether the entrypoint can be resolved in the delivered code.
EntrypointValues == {"present", "missing"}

\* ip: None, the empty string or an address; route: None or a gateway;
\* dns_servers: a list of servers.
IpValues == {"None", "", "10.0.0.2"}
RouteValues == {"None", "10.0.0.1"}
DnsValues == {<<>>, <<"1.1.1.1", "8.8.8.8">>}

NoConfig == [encoding |-> "none", interface |-> "none", entrypoint |-> "none",
             ip |-> "None", route |-> "None", dns_servers |-> <<>>]

ConfigurationPayload ==
    [encoding : EncodingValues, interface : InterfaceValues,
     entrypoint : EntrypointValues,
     ip : IpValues, route : RouteValues, dns_servers : DnsValues]

\* msgpack encoding of a configuration: one complete map.
PackedConfig == <<"M1", "x", "x">>

\* msgpack.loads(data, raw=False): "map" for exactly one complete map,
\* "int" for exactly one one-byte object (digits and the newline are
\* positive fixints), "error" for empty, truncated or trailing data.
msgpack_loads(data) ==
    IF Len(data) = 0 THEN "error"
    ELSE IF data[1] = "M1"
         THEN IF Len(data) = 3 /\ data[2] # "M1" /\ data[3] # "M1"
              THEN "map" ELSE "error"
         ELSE IF Len(data) = 1 THEN "int" ELSE "error"

\* load_configuration(data): a ConfigurationPayload is built only from a
\* decoded map; msg_.get fails on anything else.
load_configuration(data) == msgpack_loads(data) = "map"

\* ------------------------------------------------------- setup messages
RECURSIVE SeqsOf(_, _)
SeqsOf(S, n) ==
    IF n = 0 THEN {<<>>}
    ELSE LET shorter == SeqsOf(S, n - 1)
         IN  shorter \cup {Append(q, b) : q \in {r \in shorter : Len(r) = n - 1}, b \in S}

PayloadBytes == {"M1", "x"}

\* A payload too long for its length to fit in one digit.
LongPayload == [i \in 1..10 |-> IF i = 1 THEN "M1" ELSE "x"]

Payloads == SeqsOf(PayloadBytes, MaxLen) \cup {LongPayload}

\* What the host sends on the control connection: header, newline, payload.
\* cfg is the configuration the payload encodes when it is well formed.
SetupMessages ==
    { [header |-> Header(Len(p), d), payload |-> p, cfg |-> c] :
        d \in 0..MaxDigits, p \in Payloads, c \in ConfigurationPayload }

AllSetupMessages ==
    { m \in SetupMessages :
        /\ Len(m.header) = 0 \/ Len(m.header) >= Len(Decimal(Len(m.payload)))
        /\ m.payload # PackedConfig => m.cfg = CHOOSE c \in ConfigurationPayload : TRUE }

\* The well-formed setup messages of a host that goes on to send
\* instructions.
ServeSetupMessages ==
    { m \in AllSetupMessages :
        /\ Len(m.header) = 1
        /\ m.payload = PackedConfig
        /\ m.cfg.encoding = "plain"
        /\ m.cfg.interface \in Interface
        /\ m.cfg.entrypoint = "present"
        /\ m.cfg.ip = "10.0.0.2"
        /\ m.cfg.route = "10.0.0.1"
        /\ m.cfg.dns_servers # <<>> }

StreamOf(m) == m.header \o <<NL>> \o m.payload

\* ------------------------------------------------------------ system setup
\* The guest's network configuration: the addresses and the state of lo
\* and eth0, the default route, and /etc/resolv.conf (whether it was
\* rewritten, and with which nameserver lines).
NoNetwork ==
    [lo_addrs |-> {}, lo_up |-> FALSE, eth0_addrs |-> {}, eth0_up |-> FALSE,
     default_route |-> "None", resolv_written |-> FALSE, nameservers |-> <<>>]

\* bool(ip), bool(route)
Truthy(str) == str \notin {"None", ""}

setup_network_LoopbackFirst(ip, route, dns_servers, has_eth0, net) ==
    IF ~has_eth0 THEN net
    ELSE LET lo == [net EXCEPT !.lo_addrs = @ \cup {"127.0.0.1/8", "::1/128"},
                               !.lo_up = TRUE]
         IN  IF ~Truthy(ip) THEN lo
             ELSE [lo EXCEPT !.eth0_addrs = @ \cup {ip},
                             !.eth0_up = TRUE,
                             !.default_route = IF Truthy(route) THEN route ELSE @,
                             !.resolv_written = TRUE,
                             !.nameservers = dns_servers]

setup_network_NoLoopback(ip, route, dns_servers, has_eth0, net) ==
    IF ~has_eth0 THEN net
    ELSE IF ~Truthy(ip) THEN net
    ELSE [net EXCEPT !.eth0_addrs = @ \cup {ip},
                     !.eth0_up = TRUE,
                     !.default_route = IF Truthy(route) THEN route ELSE @,
                     !.resolv_written = TRUE,
                     !.nameservers = dns_servers]

\* setup_network(ip, route, dns_servers): the network configuration it
\* leaves; has_eth0 is os.path.exists("/sys/class/net/eth0").  The address
\* is added with a /24 prefix; every server gets one nameserver line.
setup_network(ip, route, dns_servers, has_eth0, net) ==
    IF ~has_eth0 THEN net
    ELSE IF ~Truthy(ip) THEN net
    ELSE [net EXCEPT !.lo_addrs = @ \cup {"127.0.0.1/8", "::1/128"},
                     !.lo_up = TRUE,
                     !.eth0_addrs = @ \cup {ip},
                     !.eth0_up = TRUE,
                     !.default_route = IF Truthy(route) THEN route ELSE @,
                     !.resolv_written = TRUE,
                     !.nameservers = dns_servers]

SetupSteps_NetworkLast ==
    <<"hostname", "variables", "volumes", "input_data", "network">>

\* setup_system: the calls it makes, in order.
SetupSteps ==
    <<"hostname", "variables", "volumes", "network", "input_data">>

\* ---------------------------------------------------------- code loading
Loaded(h) == [ok |-> TRUE, handle |-> h, error |-> "none"]
Raised(e) == [ok |-> FALSE, handle |-> "none", error |-> e]

setup_code_asgi(encoding, entrypoint) ==
    IF encoding \in Encoding
    THEN IF entrypoint = "present" THEN Loaded("asgi_app")
         ELSE Raised("ImportError")
    ELSE Raised("Unknown encoding")

setup_code_executable(encoding, entrypoint) ==
    IF encoding \in {"squashfs", "zip"}
    THEN IF entrypoint = "present" THEN Loaded("process")
         ELSE Raised("No such file")
    ELSE IF encoding = "plain"
         THEN Loaded("process")
         ELSE Raised("Unknown encoding")

setup_code(encoding, entrypoint, interface) ==
    IF interface = "asgi" THEN setup_code_asgi(encoding, entrypoint)
    ELSE IF interface = "executable"
         THEN setup_code_executable(encoding, entrypoint)
         ELSE Raised("Invalid interface")

\* ------------------------------------------------------------ instructions
\* What a shell command does: its exit status and its combined
\* stdout/stderr.  "echo hello" prints hello and a newline.
ShellRuns ==
    { [exit |-> 0, out |-> <<"hello", NL>>],
      [exit |-> 1, out |-> <<>>],
      [exit |-> 2, out |-> <<"No such file", NL>>] }

NoRun == [exit |-> 0, out |-> <<>>]

Instr(k, sc, r) == [kind |-> k, scope |-> sc, run |-> r]

NoInstruction == Instr("none", "none", NoRun)

\* The bytes one reader.read() returns: the literal halt, a shell line
\* (whose remainder is or is not valid UTF-8), a packed RunCodePayload whose
\* scope is HTTP shaped, not HTTP shaped, or has no body, bytes that are no
\* packed map, and the empty read of a connection the peer closed.
Instructions ==
    {Instr("halt", "none", NoRun)}
    \cup {Instr("shell", "none", r) : r \in ShellRuns}
    \cup {Instr("shell_undecodable", "none", NoRun)}
    \cup {Instr("run", sc, NoRun) : sc \in {"http", "aleph", "nobody"}}
    \cup {Instr("malformed", "none", NoRun)}
    \cup {Instr("empty", "none", NoRun)}

\* The instructions told apart under an interface: run_executable_http
\* passes the scope on to the subprocess without looking at its type, so
\* one scope stands for all of them there.
InstructionsFor(interface) ==
    IF interface = "executable"
    THEN {i \in Instructions : i.kind = "run" => i.scope = "http"}
    ELSE Instructions

\* ------------------------------------------------------------------ frames
\* process_instruction: yield b"STOP\n"
StopFrame == [kind |-> "raw", bytes |-> <<"STOP", NL>>]

\* str(error) of a CalledProcessError
CalledProcessErrorText(r) ==
    CASE r.exit = 1 -> "returned non-zero exit status 1."
      [] r.exit = 2 -> "returned non-zero exit status 2."
      [] OTHER -> "returned non-zero exit status."

ShellFrame_ErrorOnly(r) ==
    IF r.exit = 0
    THEN [kind |-> "raw", bytes |-> r.out]
    ELSE [kind |-> "raw", bytes |-> <<CalledProcessErrorText(r)>>]

\* process_instruction: the frame of a shell line, from what
\* subprocess.check_output returns or raises.
ShellFrame(r) ==
    IF r.exit = 0
    THEN [kind |-> "raw", bytes |-> r.out]
    ELSE [kind |-> "raw", bytes |-> <<CalledProcessErrorText(r)>> \o <<NL>> \o r.out]

\* process_instruction: msgpack.dumps(result, use_bin_type=True)
ResultFrame(headers, body, output, output_data) ==
    [kind |-> "msgpack", shape |-> "result", headers |-> headers,
     body |-> body, output |-> output, output_data |-> output_data]

ErrorFrame_NoMessage(error, output) ==
    [kind |-> "msgpack", shape |-> "error", error |-> "",
     traceback |-> "traceback", output |-> output]

\* process_instruction: msgpack.dumps({"error": ..., "traceback": ...,
\* "output": output})
ErrorFrame(error, output) ==
    [kind |-> "msgpack", shape |-> "error", error |-> error,
     traceback |-> "traceback", output |-> output]

\* The i-th message the application passed to send().
Message(i) ==
    CASE i = 1 -> "message 1" [] i = 2 -> "message 2" [] i = 3 -> "message 3"
      [] i = 4 -> "message 4" [] OTHER -> "message 5"

\* buf.getvalue()
Captured(p) == IF p THEN "printed" ELSE ""

\* ---------------------------------------------------------------- state
VARIABLES
    phase,      \* where main() is
    sent,       \* the setup message the host wrote
    sock,       \* unread bytes of the control connection
    buffer,     \* receive_data_length: buffer
    iter,       \* receive_data_length: iterations of the loop done
    length,     \* receive_config: length
    data,       \* receive_config: data
    config,     \* main: config
    setupLog,   \* steps of setup_system run so far
    app,        \* main: app
    ack,        \* setup acknowledgment sent on the control connection
    ready,      \* the readiness connection to the host: none, sent, failed
    eth0,       \* whether the guest has /sys/class/net/eth0
    net,        \* the guest's network configuration
    pc,         \* per connection: where its handle_instruction task is
    ins,        \* per connection: the instruction read
    frames,     \* per connection: the response frames written
    tries,      \* per connection: run_executable_http: tries
    queue,      \* per connection: run_python_code_http: send_queue
    printed,    \* per connection: whether the application wrote to stdout
    raised,     \* per connection: whether the application raised
    portOpen,   \* whether the subprocess listens on localhost:8080
    wire,       \* instruction connection: the host's writes not yet arrived
    rbuf,       \* instruction connection: bytes buffered in the reader
    dataLen,    \* handle_instruction: len(data), -1 before the read returns
    meta_vm_hash,   \* per sidecar: app.meta_vm_hash
    redis,          \* the store at redis://localhost: key -> value
    request,        \* sidecar: the request last handled
    response,       \* sidecar: the response to it
    redisCalls,     \* sidecar: the store commands its handler issued
    connectorCalls, \* sidecar: the requests its handler sent to the connector
    nreq,           \* sidecar: requests handled so far
    stored,           \* the descriptor the store holds under ref
    original_message, \* load_updated_message: original_message
    message,          \* load_updated_message: message
    mpc,              \* where load_updated_message is
    pending,          \* update_message: the gathered calls not yet ended
    outcome,          \* what load_updated_message returned or raised
    faults            \* the failures the store answered with, in order

bootVars == <<phase, sent, sock, buffer, iter, length, data, config,
              setupLog, app, ack, ready, eth0, net>>

serveVars == <<pc, ins, frames, tries, queue, printed, raised, portOpen>>

readVars == <<wire, rbuf, dataLen>>

apiVars == <<meta_vm_hash, redis, request, response, redisCalls,
             connectorCalls, nreq>>

msgVars == <<stored, original_message, message, mpc, pending, outcome, faults>>

sideVars == <<readVars, apiVars, msgVars>>

vars == <<phase, sent, sock, buffer, iter, length, data, config,
          setupLog, app, ack, ready, eth0, net,
          pc, ins, frames, tries, queue, printed, raised, portOpen,
          wire, rbuf, dataLen,
          meta_vm_hash, redis, request, response, redisCalls,
          connectorCalls, nreq,
          stored, original_message, message, mpc, pending, outcome, faults>>

Conns == 1..MaxConns

\* None where a string is optional: the one-element sequence of a marker
\* that is no character, so that no string equals it.
NoneStr == <<"None">>

\* The sidecars on the host, one per virtual machine, sharing one store.
Sidecars == {"vm1", "vm2"}

EmptyStore == [k \in {} |-> ""]

NoRequest ==
    [app |-> "none", method |-> "none", route |-> "none", key |-> <<>>,
     pattern |-> <<>>, value |-> "", address |-> <<>>]

NoResponse == [status |-> 0, body |-> "", keys |-> {}]

\* Nothing has been written on an instruction connection.
IdleRead ==
    /\ wire = <<>>
    /\ rbuf = 0
    /\ dataLen = -1

\* A descriptor that has not been fetched.
\* A part of a descriptor: None, an object with no ref and no use_latest
\* (an ephemeral volume), or an object with both.
Part(type, ref, use_latest) == [type |-> type, ref |-> ref, use_latest |-> use_latest]

NonePart == Part("None", "None", FALSE)

NoMessage == [runtime |-> NonePart, code |-> NonePart, data |-> NonePart, volumes |-> <<>>]

NoResult == [kind |-> "none", status |-> 0, updated |-> NoMessage, original |-> NoMessage]

\* load_updated_message has not been called.
IdleMsg ==
    /\ stored = NoMessage
    /\ original_message = NoMessage
    /\ message = NoMessage
    /\ mpc = "idle"
    /\ pending = {}
    /\ outcome = NoResult
    /\ faults = <<>>

\* No sidecar has handled a request.
IdleApi ==
    /\ meta_vm_hash = [v \in Sidecars |-> <<"_">>]
    /\ redis = EmptyStore
    /\ request = NoRequest
    /\ response = NoResponse
    /\ redisCalls = <<>>
    /\ connectorCalls = <<>>
    /\ nreq = 0

InitBootWith(messages, interfaces) ==
    /\ phase = "start"
    /\ ready = "none"
    /\ eth0 \in interfaces
    /\ net = NoNetwork
    /\ sent \in messages
    /\ sock = <<>>
    /\ buffer = <<>>
    /\ iter = 0
    /\ length = 0
    /\ data = <<>>
    /\ config = NoConfig
    /\ setupLog = <<>>
    /\ app = "none"
    /\ ack = "none"
    /\ pc = [c \in Conns |-> "idle"]
    /\ ins = [c \in Conns |-> NoInstruction]
    /\ frames = [c \in Conns |-> <<>>]
    /\ tries = [c \in Conns |-> 0]
    /\ queue = [c \in Conns |-> <<>>]
    /\ printed = [c \in Conns |-> FALSE]
    /\ raised = [c \in Conns |-> FALSE]
    /\ portOpen = FALSE

\* Module level: s.bind((socket.VMADDR_CID_ANY, 52)); s.listen()
listen ==
    /\ phase = "start"
    /\ phase' = "listening"
    /\ UNCHANGED <<sent, sock, buffer, iter, length, data, config, setupLog,
                   app, ack, ready, eth0, net, serveVars>>
    /\ UNCHANGED sideVars

\* Module level: s0.connect((2, 52)); s0.close().  A connect that fails
\* raises, and the exception ends the process before main() is called.
announce_ready ==
    /\ phase = "listening"
    /\ \E connected \in BOOLEAN :
          IF connected
          THEN /\ ready' = "sent"
               /\ phase' = "accept"
          ELSE /\ ready' = "failed"
               /\ phase' = "crashed"
    /\ UNCHANGED <<sent, sock, buffer, iter, length, data, config, setupLog,
                   app, ack, eth0, net, serveVars>>
    /\ UNCHANGED sideVars

\* main: client, addr = s.accept()
accept ==
    /\ phase = "accept"
    /\ phase' = "recv_length"
    /\ sock' = StreamOf(sent)
    /\ UNCHANGED <<sent, buffer, iter, length, data, config, setupLog, app, ack,
                   ready, eth0, net, serveVars>>
    /\ UNCHANGED sideVars

\* receive_data_length: one iteration of the loop, and int(buffer) when
\* the loop is left.
receive_data_length ==
    /\ phase = "recv_length"
    /\ iter < HeaderLimit
    /\ sock # <<>>
    /\ LET byte == Head(sock)
           buf  == IF byte = NL THEN buffer ELSE Append(buffer, byte)
           done == byte = NL \/ iter + 1 = HeaderLimit
       IN  /\ sock' = Tail(sock)
           /\ buffer' = buf
           /\ iter' = iter + 1
           /\ IF ~done
              THEN /\ phase' = "recv_length"
                   /\ length' = length
              ELSE IF int(buf) < 0
                   THEN /\ phase' = "crashed"
                        /\ length' = length
                   ELSE /\ phase' = "recv_data"
                        /\ length' = int(buf)
    /\ UNCHANGED <<sent, data, config, setupLog, app, ack,
                   ready, eth0, net, serveVars>>
    /\ UNCHANGED sideVars

\* receive_config: one pass of while len(data) < length
receive_config ==
    /\ phase = "recv_data"
    /\ Len(data) < length
    /\ sock # <<>>
    /\ \E n \in 1..Len(sock) :
          /\ data' = data \o SubSeq(sock, 1, n)
          /\ sock' = SubSeq(sock, n + 1, Len(sock))
    /\ UNCHANGED <<phase, sent, buffer, iter, length, config, setupLog, app, ack,
                   ready, eth0, net, serveVars>>
    /\ UNCHANGED sideVars

\* receive_config: return load_configuration(data)
decode_config ==
    /\ phase = "recv_data"
    /\ Len(data) >= length
    /\ IF load_configuration(data)
       THEN /\ phase' = "configured"
            /\ config' = sent.cfg
       ELSE /\ phase' = "crashed"
            /\ config' = config
    /\ UNCHANGED <<sent, sock, buffer, iter, length, data, setupLog, app, ack,
                   ready, eth0, net, serveVars>>
    /\ UNCHANGED sideVars

\* setup_system(config)
setup_system ==
    /\ phase = "configured"
    /\ setupLog' = setupLog \o SetupSteps
    /\ net' = setup_network(config.ip, config.route, config.dns_servers, eth0, net)
    /\ phase' = "setup"
    /\ UNCHANGED <<sent, sock, buffer, iter, length, data, config, app, ack,
                   ready, eth0, serveVars>>
    /\ UNCHANGED sideVars

AckOf_Always(result) == "success"

\* main: the acknowledgment sent after setup_code returned or raised
AckOf(result) == IF result.ok THEN "success" ELSE "failure"

\* main: try: app = setup_code(...); client.send(success) except: ...
load_code ==
    /\ phase = "setup"
    /\ LET result == setup_code(config.encoding, config.entrypoint, config.interface)
       IN  /\ app' = result.handle
           /\ ack' = AckOf(result)
           /\ phase' = IF result.ok THEN "acked" ELSE "crashed"
    /\ UNCHANGED <<sent, sock, buffer, iter, length, data, config, setupLog,
                   ready, eth0, net, serveVars>>
    /\ UNCHANGED sideVars

\* main: server = await asyncio.start_server(handle_instruction, sock=s)
start_server ==
    /\ phase = "acked"
    /\ phase' = "serving"
    /\ UNCHANGED <<sent, sock, buffer, iter, length, data, config, setupLog,
                   app, ack, ready, eth0, net, serveVars>>
    /\ UNCHANGED sideVars

NextBoot ==
    \/ listen
    \/ announce_ready
    \/ accept
    \/ receive_data_length
    \/ receive_config
    \/ decode_config
    \/ setup_system
    \/ load_code
    \/ start_server

\* Any setup message, with or without eth0; nothing else runs.
InitBoot ==
    /\ InitBootWith(AllSetupMessages, BOOLEAN)
    /\ IdleRead
    /\ IdleApi
    /\ IdleMsg

SpecBoot == InitBoot /\ [][NextBoot]_vars

\* ------------------------------------------------------------ serving
\* The server accepts the host's next connection and starts a
\* handle_instruction task, which waits in reader.read().
connect(c) ==
    /\ phase = "serving"
    /\ pc[c] = "idle"
    /\ \A d \in Conns : d < c => pc[d] # "idle"
    /\ pc' = [pc EXCEPT ![c] = "reading"]
    /\ UNCHANGED <<bootVars, ins, frames, tries, queue, printed, raised, portOpen>>
    /\ UNCHANGED sideVars

Respond_KeepOpen(c, frame) ==
    /\ frames' = [frames EXCEPT ![c] = Append(@, frame)]
    /\ pc' = [pc EXCEPT ![c] = "reading"]

\* handle_instruction: writer.write(result); await writer.drain(); and, when
\* the drain does not suspend, the end of the generator and writer.close().
\* The drain suspends only while the transport buffers more than its
\* high-water mark.
Respond(c, frame) ==
    /\ frames' = [frames EXCEPT ![c] = Append(@, frame)]
    /\ \E p \in {"draining", "closed"} : pc' = [pc EXCEPT ![c] = p]

\* handle_instruction: the exception leaves the task: nothing is written
\* and writer.close() is not reached.
Fail(c) ==
    /\ pc' = [pc EXCEPT ![c] = "failed"]
    /\ frames' = frames

Halt_NoExit(c) ==
    /\ frames' = [frames EXCEPT ![c] = Append(@, StopFrame)]
    /\ pc' = [pc EXCEPT ![c] = "closed"]
    /\ phase' = phase

\* process_instruction, halt: system("sync"); yield b"STOP\n"; the five
\* bytes are written, the drain returns at once, sys.exit() ends the loop.
Halt(c) ==
    /\ frames' = [frames EXCEPT ![c] = Append(@, StopFrame)]
    /\ pc' = [pc EXCEPT ![c] = "exited"]
    /\ phase' = "exited"

ReadQueue_LastFirst(c, sc, q, p) ==
    LET need == IF sc = "http" THEN 2 ELSE 1
    IN  IF Len(q) < need
        THEN /\ pc' = [pc EXCEPT ![c] = "queue_wait"]
             /\ queue' = [queue EXCEPT ![c] = <<>>]
             /\ printed' = [printed EXCEPT ![c] = p]
             /\ frames' = frames
        ELSE /\ queue' = [queue EXCEPT ![c] = <<>>]
             /\ printed' = [printed EXCEPT ![c] = FALSE]
             /\ Respond(c, ResultFrame(IF sc = "http" THEN q[Len(q)] ELSE "{}",
                                       q[Len(q) - need + 1], Captured(p), ""))

\* run_python_code_http after await application(...) returned: headers and
\* body are taken from send_queue; a get() on the empty queue never returns.
\* On return the queue and the stdout buffer of the call are gone.
ReadQueue(c, sc, q, p) ==
    LET need == IF sc = "http" THEN 2 ELSE 1
    IN  IF Len(q) < need
        THEN /\ pc' = [pc EXCEPT ![c] = "queue_wait"]
             /\ queue' = [queue EXCEPT ![c] = <<>>]
             /\ printed' = [printed EXCEPT ![c] = p]
             /\ frames' = frames
        ELSE /\ queue' = [queue EXCEPT ![c] = <<>>]
             /\ printed' = [printed EXCEPT ![c] = FALSE]
             /\ Respond(c, ResultFrame(IF sc = "http" THEN q[1] ELSE "{}",
                                       q[need], Captured(p), ""))

\* The application runs from the call, or from where it was suspended, to
\* its next await, its return or its raise.
RunApplication(c, sc) ==
    \E k \in 0..(MaxSends - Len(queue[c])), p \in BOOLEAN,
       o \in {"await", "return", "raise"} :
        LET q  == queue[c] \o [i \in 1..k |-> Message(Len(queue[c]) + i)]
            pr == printed[c] \/ p
        IN  /\ raised' = [raised EXCEPT ![c] = (o = "raise")]
            /\ CASE o = "await" ->
                      /\ pc' = [pc EXCEPT ![c] = "in_app"]
                      /\ queue' = [queue EXCEPT ![c] = q]
                      /\ printed' = [printed EXCEPT ![c] = pr]
                      /\ frames' = frames
                 [] o = "raise" ->
                      /\ queue' = [queue EXCEPT ![c] = <<>>]
                      /\ printed' = [printed EXCEPT ![c] = FALSE]
                      /\ Respond(c, ErrorFrame("application error", "None"))
                 [] o = "return" -> ReadQueue(c, sc, q, pr)

\* handle_instruction: data = await reader.read(...) returns and
\* process_instruction runs to its first suspension.
handle_instruction(c) ==
    /\ phase = "serving"
    /\ pc[c] = "reading"
    /\ \E i \in InstructionsFor(config.interface) :
        /\ ins' = [ins EXCEPT ![c] = i]
        /\ CASE i.kind = "halt" ->
                  /\ Halt(c)
                  /\ UNCHANGED <<tries, queue, printed, raised>>
             [] i.kind = "shell" ->
                  /\ Respond(c, ShellFrame(i.run))
                  /\ UNCHANGED <<phase, tries, queue, printed, raised>>
             [] i.kind \in {"shell_undecodable", "malformed", "empty"} ->
                  /\ Fail(c)
                  /\ UNCHANGED <<phase, tries, queue, printed, raised>>
             [] i.kind = "run" /\ config.interface = "asgi" ->
                  /\ IF i.scope = "nobody"
                     THEN /\ Respond(c, ErrorFrame("'body'", "None"))
                          /\ UNCHANGED <<queue, printed, raised>>
                     ELSE RunApplication(c, i.scope)
                  /\ UNCHANGED <<phase, tries>>
             [] i.kind = "run" /\ config.interface = "executable" ->
                  /\ tries' = [tries EXCEPT ![c] = 1]
                  /\ pc' = [pc EXCEPT ![c] = "requesting"]
                  /\ UNCHANGED <<phase, frames, queue, printed, raised>>
             [] OTHER ->
                  /\ Respond(c, ErrorFrame("Unknown interface", "None"))
                  /\ UNCHANGED <<phase, tries, queue, printed, raised>>
    /\ UNCHANGED <<sent, sock, buffer, iter, length, data, config, setupLog,
                   app, ack, ready, eth0, net, portOpen>>
    /\ UNCHANGED sideVars

\* run_python_code_http: the application resumes from an await.
application_resumes(c) ==
    /\ phase = "serving"
    /\ pc[c] = "in_app"
    /\ RunApplication(c, ins[c].scope)
    /\ UNCHANGED <<bootVars, ins, tries, portOpen>>
    /\ UNCHANGED sideVars

\* run_executable_http: await make_request(session, scope) ends: the
\* result is returned, or the ClientConnectorError is raised again, or
\* after await asyncio.sleep(.05) the loop makes its next attempt.  On
\* return or raise the counter of the call is gone.
request_done(c) ==
    /\ phase = "serving"
    /\ pc[c] = "requesting"
    /\ IF portOpen
       THEN /\ Respond(c, ResultFrame("response headers", "response body", "", "None"))
            /\ tries' = [tries EXCEPT ![c] = 0]
       ELSE IF tries[c] > RetryLimit
            THEN /\ Respond(c, ErrorFrame("Cannot connect to host", "None"))
                 /\ tries' = [tries EXCEPT ![c] = 0]
            ELSE /\ tries' = [tries EXCEPT ![c] = @ + 1]
                 /\ UNCHANGED <<pc, frames>>
    /\ UNCHANGED <<bootVars, ins, queue, printed, raised, portOpen>>
    /\ UNCHANGED sideVars

\* handle_instruction: await writer.drain() ends, the generator is
\* exhausted, writer.close().
drain_done(c) ==
    /\ phase = "serving"
    /\ pc[c] = "draining"
    /\ pc' = [pc EXCEPT ![c] = "closed"]
    /\ UNCHANGED <<bootVars, ins, frames, tries, queue, printed, raised, portOpen>>
    /\ UNCHANGED sideVars

\* The subprocess started by setup_code_executable binds its port.
port_opens ==
    /\ phase = "serving"
    /\ app = "process"
    /\ ~portOpen
    /\ portOpen' = TRUE
    /\ UNCHANGED <<bootVars, pc, ins, frames, tries, queue, printed, raised>>
    /\ UNCHANGED sideVars

Next ==
    \/ listen
    \/ announce_ready
    \/ accept
    \/ receive_data_length
    \/ receive_config
    \/ decode_config
    \/ setup_system
    \/ load_code
    \/ start_server
    \/ \E c \in Conns : connect(c)
    \/ \E c \in Conns : handle_instruction(c)
    \/ \E c \in Conns : application_resumes(c)
    \/ \E c \in Conns : request_done(c)
    \/ \E c \in Conns : drain_done(c)
    \/ port_opens

\* A setup message that leads to serving; nothing else runs.
Init ==
    /\ InitBootWith(ServeSetupMessages, {TRUE})
    /\ IdleRead
    /\ IdleApi
    /\ IdleMsg

Spec == Init /\ [][Next]_vars

\* ---------------------------------------------------- instruction read
\* The agent before it has started, as it stays while only the reader of
\* an instruction connection or the sidecars run.
AgentNotStarted ==
    InitBootWith({CHOOSE m \in ServeSetupMessages : TRUE}, {TRUE})

\* Lengths of the writes the host makes on an instruction connection.
WriteSizes == {1, 1000000, 1000001, ReadLimit, ReadLimit + 1}

InitRead ==
    /\ AgentNotStarted
    /\ IdleApi
    /\ IdleMsg
    /\ wire \in SeqsOf(WriteSizes, MaxWrites)
    /\ rbuf = 0
    /\ dataLen = -1

\* The bytes of the host's next write arrive and are buffered by the
\* reader of the connection.
data_received ==
    /\ wire # <<>>
    /\ dataLen = -1
    /\ rbuf' = rbuf + Head(wire)
    /\ wire' = Tail(wire)
    /\ UNCHANGED <<dataLen, apiVars, msgVars, bootVars, serveVars>>

\* handle_instruction: data = await reader.read(1000_1000) returns what is
\* buffered, up to the limit given, once there is a byte or the end of the
\* stream.
reader_read ==
    /\ dataLen = -1
    /\ rbuf > 0 \/ wire = <<>>
    /\ dataLen' = IF rbuf < ReadLimit THEN rbuf ELSE ReadLimit
    /\ rbuf' = rbuf - dataLen'
    /\ UNCHANGED <<wire, apiVars, msgVars, bootVars, serveVars>>

NextRead ==
    \/ data_received
    \/ reader_read

SpecRead == InitRead /\ [][NextRead]_vars

\* -------------------------------------------------------------- sidecar
\* Characters the pattern \w matches, of those that occur in the inputs.
WordChars == {"a", "b", "_"}

\* Characters of the class [\w?*^\-].
PatternChars == WordChars \cup {"?", "*", "^", "-"}

re_match_Unanchored(class, string) ==
    /\ string # <<>>
    /\ string[1] \in class

\* re.match(r'^[class]+$', string): one or more characters of the class,
\* up to the end of the string or to a newline that ends the string.
re_match(class, string) ==
    \E n \in 1..Len(string) :
        /\ \A i \in 1..n : string[i] \in class
        /\ \/ n = Len(string)
           \/ n = Len(string) - 1 /\ string[Len(string)] = NL

StoreKey_Unprefixed(prefix, key) == key

\* f"{prefix}:{key}"
StoreKey(prefix, key) == prefix \o <<":">> \o key

\* The store's answers to GET, SET, DEL and KEYS.
redis_get(name) == IF name \in DOMAIN redis THEN redis[name] ELSE "None"

redis_set(name, value) ==
    [k \in DOMAIN redis \cup {name} |-> IF k = name THEN value ELSE redis[k]]

redis_delete(name) == [k \in DOMAIN redis \ {name} |-> redis[k]]

RECURSIVE stringmatch(_, _)
stringmatch(pattern, string) ==
    IF pattern = <<>> THEN string = <<>>
    ELSE IF Head(pattern) = "*"
    THEN \/ stringmatch(Tail(pattern), string)
         \/ string # <<>> /\ stringmatch(pattern, Tail(string))
    ELSE /\ string # <<>>
         /\ Head(pattern) = "?" \/ Head(pattern) = Head(string)
         /\ stringmatch(Tail(pattern), Tail(string))

redis_keys(pattern) == {k \in DOMAIN redis : stringmatch(pattern, k)}

\* The vm_hash argument a sidecar is started with.
VmHashValues == {NoneStr, <<>>, <<"a">>, <<"b">>, <<"a", "b">>}

\* content["address"] of the message posted to /sign; NoneStr: no address.
AddressValues == {NoneStr, <<>>, <<"_">>, <<"a">>, <<"b">>}

\* The key in the path of a cache request, after URL decoding.
KeyValues ==
    {<<>>, <<"a">>, <<"b", "_">>, <<"a", NL>>, <<NL>>, <<"/">>, <<"a", "/">>,
     <<"a", "/", "b">>, <<" ">>, <<"a", " ">>, <<" ", "a">>, <<"a", "-">>}

\* The pattern parameter of a list request; NoneStr: not given.
PatternValues == {NoneStr, <<"*">>, <<"a", "*">>, <<"?">>, <<"a", "/">>, <<>>}

\* The body of a PUT.
ValueValues == {"", "v"}

\* What the connector answers: a status, or 0 when it cannot be reached.
ConnectorAnswers == {200, 403, 0}

Response(status, body) == [status |-> status, body |-> body, keys |-> {}]

\* run_guest_api: app.meta_vm_hash = vm_hash or '_'
run_guest_api(vm_hash) ==
    IF vm_hash = NoneStr \/ vm_hash = <<>> THEN <<"_">> ELSE vm_hash

InitApi ==
    /\ AgentNotStarted
    /\ IdleRead
    /\ IdleMsg
    /\ \E args \in [Sidecars -> VmHashValues] :
          meta_vm_hash = [v \in Sidecars |-> run_guest_api(args[v])]
    /\ redis = EmptyStore
    /\ request = NoRequest
    /\ response = NoResponse
    /\ redisCalls = <<>>
    /\ connectorCalls = <<>>
    /\ nreq = 0

\* A handler ran: what it was asked, what it answered, the store it left,
\* and the commands and requests it issued on the way.
Handled(req, resp, store, commands, posts) ==
    /\ nreq < MaxRequests
    /\ nreq' = nreq + 1
    /\ request' = req
    /\ response' = resp
    /\ redis' = store
    /\ redisCalls' = commands
    /\ connectorCalls' = posts
    /\ UNCHANGED <<meta_vm_hash, readVars, msgVars, bootVars, serveVars>>

sign_Unchecked(v) ==
    \E address \in AddressValues, answer \in ConnectorAnswers :
        LET req == [NoRequest EXCEPT !.app = v, !.method = "POST",
                                     !.route = "/sign", !.address = address]
            post == [url |-> "http://localhost:4021/sign", address |-> address]
        IN  IF address = NoneStr
            THEN Handled(req, Response(500, "Internal Server Error"), redis, <<>>, <<>>)
            ELSE IF answer = 0
            THEN Handled(req, Response(500, "Internal Server Error"), redis, <<>>, <<post>>)
            ELSE Handled(req, Response(answer, "signed message"), redis, <<>>, <<post>>)

\* sign: POST /sign
sign(v) ==
    \E address \in AddressValues, answer \in ConnectorAnswers :
        LET vm_hash == meta_vm_hash[v]
            req == [NoRequest EXCEPT !.app = v, !.method = "POST",
                                     !.route = "/sign", !.address = address]
            post == [url |-> "http://localhost:4021/sign", address |-> address]
        IN  IF address = NoneStr
            THEN Handled(req, Response(500, "Internal Server Error"), redis, <<>>, <<>>)
            ELSE IF address # vm_hash
            THEN Handled(req, Response(400, "Message address does not match VM item_hash"),
                         redis, <<>>, <<>>)
            ELSE IF answer = 0
            THEN Handled(req, Response(500, "Internal Server Error"), redis, <<>>, <<post>>)
            ELSE Handled(req, Response(answer, "signed message"), redis, <<>>, <<post>>)

\* get_from_cache: GET /cache/{key}; GET /cache/ itself is routed to
\* list_keys_from_cache, which is registered first.
get_from_cache(v) ==
    \E key \in KeyValues \ {<<>>} :
        LET prefix == meta_vm_hash[v]
            req == [NoRequest EXCEPT !.app = v, !.method = "GET",
                                     !.route = "/cache/{key}", !.key = key]
            name == StoreKey(prefix, key)
            body == redis_get(name)
        IN  IF ~re_match(WordChars, key)
            THEN Handled(req, Response(400, "Invalid key"), redis, <<>>, <<>>)
            ELSE Handled(req,
                         IF Truthy(body) THEN Response(200, body)
                         ELSE Response(404, "No such key in cache"),
                         redis, <<[command |-> "GET", key |-> name]>>, <<>>)

\* put_in_cache: PUT /cache/{key}
put_in_cache(v) ==
    \E key \in KeyValues, value \in ValueValues :
        LET prefix == meta_vm_hash[v]
            req == [NoRequest EXCEPT !.app = v, !.method = "PUT",
                                     !.route = "/cache/{key}", !.key = key,
                                     !.value = value]
            name == StoreKey(prefix, key)
        IN  IF ~re_match(WordChars, key)
            THEN Handled(req, Response(400, "Invalid key"), redis, <<>>, <<>>)
            ELSE Handled(req, Response(200, "true"), redis_set(name, value),
                         <<[command |-> "SET", key |-> name]>>, <<>>)

\* delete_from_cache: DELETE /cache/{key}
delete_from_cache(v) ==
    \E key \in KeyValues :
        LET prefix == meta_vm_hash[v]
            req == [NoRequest EXCEPT !.app = v, !.method = "DELETE",
                                     !.route = "/cache/{key}", !.key = key]
            name == StoreKey(prefix, key)
        IN  IF ~re_match(WordChars, key)
            THEN Handled(req, Response(400, "Invalid key"), redis, <<>>, <<>>)
            ELSE Handled(req,
                         Response(200, IF name \in DOMAIN redis THEN "1" ELSE "0"),
                         redis_delete(name),
                         <<[command |-> "DEL", key |-> name]>>, <<>>)

\* list_keys_from_cache: GET /cache/?pattern=...
list_keys_from_cache(v) ==
    \E given \in PatternValues :
        LET prefix == meta_vm_hash[v]
            pattern == IF given = NoneStr THEN <<"*">> ELSE given
            req == [NoRequest EXCEPT !.app = v, !.method = "GET",
                                     !.route = "/cache/", !.pattern = given]
            name == StoreKey(prefix, pattern)
            keys == {SubSeq(k, Len(prefix) + 2, Len(k)) : k \in redis_keys(name)}
        IN  IF ~re_match(PatternChars, pattern)
            THEN Handled(req, Response(400, "Invalid key"), redis, <<>>, <<>>)
            ELSE Handled(req, [Response(200, "keys") EXCEPT !.keys = keys],
                         redis, <<[command |-> "KEYS", key |-> name]>>, <<>>)

\* put_in_cache: expire=CACHE_EXPIRES_AFTER.  Seven days after it was
\* set, the store drops an entry.
expire ==
    /\ \E name \in DOMAIN redis : redis' = redis_delete(name)
    /\ UNCHANGED <<meta_vm_hash, request, response, redisCalls,
                   connectorCalls, nreq, readVars, msgVars, bootVars,
                   serveVars>>

NextApi ==
    \/ \E v \in Sidecars : sign(v)
    \/ \E v \in Sidecars : get_from_cache(v)
    \/ \E v \in Sidecars : put_in_cache(v)
    \/ \E v \in Sidecars : delete_from_cache(v)
    \/ \E v \in Sidecars : list_keys_from_cache(v)
    \/ expire

SpecApi == InitApi /\ [][NextApi]_vars

\* ---------------------------------------------------- message resolution
\* get_latest_amend: the latest amendment of an item; h2 has none newer
\* than itself.
Latest(ref) ==
    CASE ref = "h1" -> "h1_amended"
      [] ref = "h3" -> "h3_amended"
      [] OTHER -> ref

\* message.content.runtime and .code: objects with ref and use_latest.
RefParts(ref) == {Part("ref", ref, u) : u \in BOOLEAN}

\* message.content.data: None or such an object.
DataParts == {NonePart} \cup RefParts("h3")

\* message.content.volumes: objects with or without ref and use_latest.
VolumeParts == {Part("ephemeral", "None", FALSE)} \cup RefParts("h1")

\* The descriptors the store may hold under the reference asked for.
Messages ==
    [runtime : RefParts("h1"), code : RefParts("h2"), data : DataParts,
     volumes : SeqsOf(VolumeParts, MaxVolumes)]

\* What a call to the store ends with.
StoreAnswers == {"ok", "ClientConnectorError", "404", "500"}

\* try_get_message, get_latest_ref: the error raised for a failed call.
HttpError(answer) ==
    CASE answer = "ClientConnectorError" ->
            [kind |-> "HTTPServiceUnavailable", status |-> 503,
             updated |-> NoMessage, original |-> NoMessage]
      [] answer = "404" ->
            [kind |-> "HTTPNotFound", status |-> 404,
             updated |-> NoMessage, original |-> NoMessage]
      [] OTHER ->
            [kind |-> "ClientResponseError", status |-> 500,
             updated |-> NoMessage, original |-> NoMessage]

\* update_message: the objects handed to asyncio.gather, in order.
Gathered(m) == <<m.runtime, m.code, m.data>> \o m.volumes

update_with_latest_ref_Always(obj) == obj.type = "ref"

\* update_with_latest_ref: hasattr(obj, "use_latest") and obj.use_latest
update_with_latest_ref(obj) == obj.type = "ref" /\ obj.use_latest

\* obj.ref = ... for the i-th of the gathered objects of m
SetRef(m, i, ref) ==
    CASE i = 1 -> [m EXCEPT !.runtime.ref = ref]
      [] i = 2 -> [m EXCEPT !.code.ref = ref]
      [] i = 3 -> [m EXCEPT !.data.ref = ref]
      [] OTHER -> [m EXCEPT !.volumes[i - 3].ref = ref]

InitMsg ==
    /\ AgentNotStarted
    /\ IdleRead
    /\ IdleApi
    /\ stored \in Messages
    /\ original_message = NoMessage
    /\ message = NoMessage
    /\ mpc = "start"
    /\ pending = {}
    /\ outcome = NoResult
    /\ faults = <<>>

\* load_updated_message: original_message = await try_get_message(ref);
\* message = copy.deepcopy(original_message); update_message starts the
\* gathered calls, each of which runs to its await or returns at once.
try_get_message ==
    /\ mpc = "start"
    /\ \E answer \in StoreAnswers :
          IF answer = "ok"
          THEN /\ original_message' = stored
               /\ message' = stored
               /\ pending' = {i \in 1..Len(Gathered(stored)) :
                                 update_with_latest_ref(Gathered(stored)[i])}
               /\ mpc' = "updating"
               /\ UNCHANGED <<outcome, faults>>
          ELSE /\ outcome' = HttpError(answer)
               /\ faults' = Append(faults, answer)
               /\ mpc' = "raised"
               /\ UNCHANGED <<original_message, message, pending>>
    /\ UNCHANGED <<stored, readVars, apiVars, bootVars, serveVars>>

\* update_with_latest_ref: await get_latest_ref(obj.ref) ends for one of
\* the gathered calls.  The first that raises makes gather, and with it
\* load_updated_message, raise; the other calls go on.
get_latest_ref(i) ==
    /\ mpc \in {"updating", "raised"}
    /\ i \in pending
    /\ pending' = pending \ {i}
    /\ \E answer \in StoreAnswers :
          IF answer = "ok"
          THEN /\ message' = SetRef(message, i, Latest(Gathered(message)[i].ref))
               /\ UNCHANGED <<mpc, outcome, faults>>
          ELSE /\ faults' = Append(faults, answer)
               /\ IF mpc = "updating"
                  THEN mpc' = "raised" /\ outcome' = HttpError(answer)
                  ELSE UNCHANGED <<mpc, outcome>>
               /\ UNCHANGED message
    /\ UNCHANGED <<stored, original_message, readVars, apiVars, bootVars, serveVars>>

\* load_updated_message: return message, original_message
load_updated_message ==
    /\ mpc = "updating"
    /\ pending = {}
    /\ mpc' = "returned"
    /\ outcome' = [kind |-> "pair", status |-> 0, updated |-> message,
                   original |-> original_message]
    /\ UNCHANGED <<stored, original_message, message, pending, faults,
                   readVars, apiVars, bootVars, serveVars>>

NextMsg ==
    \/ try_get_message
    \/ \E i \in 1..(3 + MaxVolumes) : get_latest_ref(i)
    \/ load_updated_message

SpecMsg == InitMsg /\ [][NextMsg]_vars

\* ------------------------------------------------------------ properties
Halted == \E c \in Conns : ins[c].kind = "halt"

\* The handler of connection c has come to its end, one way or another.
Finished(c) == pc[c] \in {"closed", "failed", "exited"}

\* C1: every instruction read after a successful setup is answered with
\* exactly one response frame, whatever it is (halt, shell line, run-code
\* payload, undecodable bytes, empty read).
C1_OneFramePerInstruction ==
    \A c \in Conns : Finished(c) => Len(frames[c]) = 1

\* C2: a halt instruction is answered with exactly the frame STOP\n and the
\* agent terminates; once it has terminated no connection is accepted, no
\* instruction is read and no frame is written any more.
C2_HaltIsTerminal ==
    [][ /\ \A c \in Conns : ins'[c].kind = "halt" =>
              frames'[c] = <<[kind |-> "raw", bytes |-> <<"STOP", NL>>]>> /\ phase' = "exited"
        /\ phase = "exited" => UNCHANGED <<phase, pc, ins, frames>> ]_vars

C2_Witness ==
    \E c, d \in Conns :
        /\ ins[c].kind = "halt" /\ Len(frames[c]) = 1 /\ phase = "exited"
        /\ pc[d] = "reading"

\* C3: while the subprocess has not opened its port, the reverse-proxy
\* bridge makes at least 1 and at most 20 connection attempts for one
\* instruction.
C3_AtMostTwentyAttempts ==
    \A c \in Conns : (pc[c] = "requesting" /\ ~portOpen) => tries[c] \in 1..20

\* C4: an application that raises is answered with one error-shaped frame
\* carrying the exception's message; the agent does not terminate because
\* of it and goes on processing the instructions that are waiting.
C4_ApplicationErrorContained ==
    \A c \in Conns : raised[c] =>
        /\ pc[c] \in {"draining", "closed"}
        /\ Len(frames[c]) = 1
        /\ frames[c][1].kind = "msgpack"
        /\ frames[c][1].shape = "error"
        /\ frames[c][1].error = "application error"
        /\ ~Halted => phase = "serving"
        /\ \A d \in Conns : (~Halted /\ pc[d] = "reading") => ENABLED handle_instruction(d)

C4_Witness ==
    \E c, d \in Conns :
        /\ raised[c] /\ pc[c] = "closed"
        /\ pc[d] = "reading" /\ phase = "serving"

\* C5: for a header of 1 to 9 digits, the bytes receive_config hands to
\* the decoder are exactly the payload bytes the host sent, however the
\* transport splits them.
C5_DecoderGetsPayload ==
    (/\ phase = "recv_data" /\ Len(data) >= length
     /\ Len(sent.header) \in 1..9)
        => data = sent.payload

\* C6: a header of more than 9 digits is fatal: no configuration is
\* decoded, no step of system setup runs, no acknowledgment is sent, and
\* main ends once the received bytes have been handed to the decoder.
C6_LongHeaderIsFatal ==
    Len(sent.header) > 9 =>
        /\ config = NoConfig
        /\ setupLog = <<>>
        /\ ack = "none"
        /\ phase \in {"start", "listening", "accept", "recv_length", "recv_data", "crashed"}

C6_Witness ==
    /\ Len(sent.header) > 9
    /\ phase = "crashed"
    /\ Len(data) > 0

LoadFails ==
    \/ config.interface \notin {"asgi", "executable"}
    \/ config.encoding \notin {"plain", "zip", "squashfs"}
    \/ config.entrypoint = "missing" /\ ~(config.interface = "executable" /\ config.encoding = "plain")

\* C7: the success acknowledgment is sent exactly when code loading has
\* returned a handle; when code loading fails the failure is reported, no
\* success acknowledgment is sent and the server is never started.
C7_AckIffLoaded ==
    /\ (ack = "success") <=> (app \in {"asgi_app", "process"})
    /\ (config # NoConfig /\ LoadFails) =>
          /\ ack # "success"
          /\ phase \in {"configured", "setup", "crashed"}
          /\ phase = "crashed" => ack = "failure"
    /\ phase \in {"acked", "serving"} => ack = "success"

C7_Witness ==
    /\ config # NoConfig /\ LoadFails
    /\ phase = "crashed" /\ ack = "failure" /\ app = "none"

\* C8: at most one instruction is in progress (read and not yet answered)
\* at any time.
C8_OneInstructionInProgress ==
    Cardinality({c \in Conns : pc[c] \in {"in_app", "requesting", "queue_wait"}}) <= 1

\* The connections accepted on the listening socket so far.
Accepted ==
    (IF phase \in {"start", "listening", "accept"} \/ ready = "failed" THEN 0 ELSE 1)
        + Cardinality({c \in Conns : pc[c] # "idle"})

C10_ShellFrame ==
    \A c \in Conns : ins[c].kind = "shell" =>
        /\ Len(frames[c]) = 1
        /\ frames[c][1].kind = "raw"
        /\ LET b == frames[c][1].bytes
               o == ins[c].run.out
           IN  IF ins[c].run.exit = 0
               THEN b = o
               ELSE /\ Len(b) = Len(o) + 2
                    /\ b[1] = CalledProcessErrorText(ins[c].run)
                    /\ b[2] = NL
                    /\ SubSeq(b, 3, Len(b)) = o
        /\ ~Halted => phase = "serving"

C10_Witness ==
    \E c, d \in Conns :
        /\ ins[c].kind = "shell" /\ ins[c].run.exit = 0
        /\ frames[c] = <<[kind |-> "raw", bytes |-> <<"hello", NL>>]>>
        /\ ins[d].kind = "shell" /\ ins[d].run.exit # 0 /\ ins[d].run.out # <<>>
        /\ Len(frames[d]) = 1
        /\ phase = "serving"

\* system setup has run.
SetupRan == setupLog # <<>>

\* C11: when the configuration supplies no IP, network setup leaves the
\* network configuration as it was (no address, no interface up, no route,
\* resolver configuration not written), and system setup goes on to the
\* input-data step and completes: a later end of main comes from code
\* loading, which reports it.
C11_NoIpNoNetworkChange ==
    (SetupRan /\ config.ip \in {"None", ""}) =>
        /\ net.lo_addrs = {} /\ net.eth0_addrs = {}
        /\ ~net.lo_up /\ ~net.eth0_up
        /\ net.default_route = "None"
        /\ ~net.resolv_written
        /\ setupLog[Len(setupLog)] = "input_data"
        /\ phase \in {"setup", "acked", "serving", "crashed"}
        /\ phase = "crashed" => ack = "failure"

C11_Witness ==
    /\ SetupRan /\ config.ip = "None" /\ eth0
    /\ config.route # "None" /\ config.dns_servers # <<>>
    /\ phase = "setup"

\* C12: the readiness connection is made after the listening socket is
\* bound and before the control connection is accepted, it is made once,
\* and when it fails the agent still goes on to accept the control
\* connection.
C12_HandshakeFailureNotFatal ==
    /\ ready # "none" => phase # "start"
    /\ phase \notin {"start", "listening"} => ready # "none"
    /\ ready = "failed" => (phase # "crashed" /\ (phase = "accept" => ENABLED accept))

\* C13: the startup phases happen in the order configuration, system setup
\* (hostname, variables, volumes, network, input data), code loading,
\* acknowledgment, each at most once, and no instruction is read before the
\* acknowledgment.
C13_StartupOrder ==
    /\ setupLog \in {<<>>, <<"hostname", "variables", "volumes", "network", "input_data">>}
    /\ SetupRan => config # NoConfig
    /\ (app # "none" \/ ack # "none") => SetupRan
    /\ ack = "success" => app # "none"
    /\ \A c \in Conns : pc[c] # "idle" => ack = "success"
    /\ phase \in {"start", "listening", "accept", "recv_length", "recv_data"}
          => (config = NoConfig /\ ~SetupRan)
    /\ phase \in {"configured", "setup"} => (app = "none" /\ ack = "none")

C13_Witness ==
    /\ \E c \in Conns : pc[c] = "closed"
    /\ Len(setupLog) = 5 /\ ack = "success"

\* C19 as stated: with a primary interface, loopback is brought up with
\* the standard addresses whether or not an IP was supplied.
C19_LoopbackAlways ==
    (SetupRan /\ eth0) =>
        (net.lo_up /\ net.lo_addrs = {"127.0.0.1/8", "::1/128"})

\* C19 as amended: with a primary interface, loopback is brought up with
\* the standard addresses exactly when an IP was supplied, together with
\* the address on eth0, eth0 up and the resolver configuration; with no IP
\* the loopback step is skipped like the later ones.
C19_LoopbackOnlyWithIp ==
    (SetupRan /\ eth0) =>
        IF config.ip \in {"None", ""}
        THEN ~net.lo_up /\ net.lo_addrs = {} /\ ~net.eth0_up /\ net.eth0_addrs = {}
        ELSE /\ net.lo_up /\ net.lo_addrs = {"127.0.0.1/8", "::1/128"}
             /\ net.eth0_up /\ net.eth0_addrs = {config.ip}
             /\ net.resolv_written /\ net.nameservers = config.dns_servers
             /\ net.default_route = config.route

C19_Witness ==
    /\ SetupRan /\ eth0 /\ config.ip = "10.0.0.2" /\ config.route = "None"
    /\ net.lo_up /\ net.default_route = "None"

\* The last frame written on connection c.
LastFrame(c) == frames[c][Len(frames[c])]

\* C14: when the application raises after it has printed to standard
\* output, the error frame written for the instruction has the printed
\* text in its output field.
C14_ErrorFrameHasPartialOutput ==
    [][\A c \in Conns :
          (pc[c] = "in_app" /\ printed[c] /\ raised'[c] /\ Len(frames'[c]) = 1)
              => (/\ frames'[c][1].shape = "error"
                  /\ frames'[c][1].error = "application error"
                  /\ frames'[c][1].output = Captured(printed[c]))]_vars

\* C17: the result frame of the in-process bridge has the first message
\* sent as headers and the second as body for an HTTP-shaped scope, and
\* empty headers and the first message sent as body for any other scope.
C17_QueueReadInSendOrder ==
    \A c \in Conns :
        (/\ config.interface = "asgi"
         /\ frames[c] # <<>>
         /\ LastFrame(c).kind = "msgpack"
         /\ LastFrame(c).shape = "result")
            => IF ins[c].scope = "http"
               THEN LastFrame(c).headers = "message 1" /\ LastFrame(c).body = "message 2"
               ELSE LastFrame(c).headers = "{}" /\ LastFrame(c).body = "message 1"

C17_Witness ==
    \E c, d \in Conns :
        /\ config.interface = "asgi"
        /\ frames[c] # <<>> /\ ins[c].kind = "run" /\ ins[c].scope = "http"
        /\ LastFrame(c).kind = "msgpack" /\ LastFrame(c).shape = "result"
        /\ frames[d] # <<>> /\ ins[d].kind = "run" /\ ins[d].scope = "aleph"
        /\ LastFrame(d).kind = "msgpack" /\ LastFrame(d).shape = "result"

\* C18: a handler whose application returned without raising is never left
\* without a frame and without a further step: whatever the number of
\* messages sent, it can still go on to write its response frame.
C18_ReturnedApplicationAnswers ==
    \A c \in Conns :
        (phase = "serving" /\ pc[c] = "queue_wait" /\ ~raised[c])
            => \/ frames[c] # <<>>
               \/ ENABLED (application_resumes(c) \/ request_done(c) \/ drain_done(c))

\* C20: the data one read hands to the dispatcher is at most 1,000,000
\* bytes long.
C20_ReadAtMostOneMillion ==
    dataLen <= 1000000

\* C15: a POST /sign whose message has a content address other than the
\* VM's identity hash is answered 400 and nothing is sent to the connector;
\* what is sent to the connector has the VM's identity hash as address.
C15_SignOnlyOwnAddress ==
    request.route = "/sign" =>
        /\ (request.address # <<"None">> /\ request.address # meta_vm_hash[request.app])
              => (response.status = 400 /\ connectorCalls = <<>>)
        /\ \A i \in 1..Len(connectorCalls) :
              connectorCalls[i].address = meta_vm_hash[request.app]
        /\ (request.address = meta_vm_hash[request.app]) => Len(connectorCalls) = 1

C15_Witness ==
    /\ request.route = "/sign"
    /\ request.address = <<"a">> /\ meta_vm_hash[request.app] = <<"b">>
    /\ response.status = 400
    /\ nreq > 1

\* C16: on GET, PUT and DELETE /cache/{key}, a key made of one or more
\* word characters reaches the store under the name <vm hash>:<key>, and a
\* key that has a '/' or a space in it, or that the pattern does not match
\* in some other way, is answered 400 with no command sent to the store.
C16_KeyValidatedBeforeStore ==
    request.route = "/cache/{key}" =>
        LET key == request.key
            word == key # <<>> /\ \A i \in 1..Len(key) : key[i] \in {"a", "b", "_"}
            name == meta_vm_hash[request.app] \o <<":">> \o key
        IN  /\ word => /\ Len(redisCalls) = 1
                       /\ redisCalls[1].key = name
                       /\ response.status # 400
            /\ (\E i \in 1..Len(key) : key[i] \in {"/", " "})
                  => (response.status = 400 /\ redisCalls = <<>>)
            /\ (key = <<>> \/ \E i \in 1..Len(key) : key[i] \in {"-", "/", " "})
                  => (response.status = 400 /\ redisCalls = <<>>)
            /\ redisCalls = <<>> <=> response.status = 400

C16_Witness ==
    /\ request.route = "/cache/{key}"
    /\ request.key = <<"a", "/", "b">>
    /\ response.status = 400 /\ redisCalls = <<>>
    /\ redis # <<>>

\* The name under which the request handled next has its key in the store.
NameAsked == meta_vm_hash[request'.app] \o <<":">> \o request'.key

\* C21: a GET of a valid key is answered 404 only when the store has no
\* entry for it: a PUT leaves its value, empty or not, under the key, a
\* DELETE leaves no entry, and a GET by the same VM answers 200 with
\* exactly the value stored when there is an entry and 404 when there is
\* none.
C21_NotFoundOnlyOnMiss ==
    [][(nreq' = nreq + 1 /\ request'.route = "/cache/{key}" /\ response'.status # 400)
          => /\ request'.method = "PUT"
                  => (NameAsked \in DOMAIN redis' /\ redis'[NameAsked] = request'.value)
             /\ request'.method = "DELETE" => NameAsked \notin DOMAIN redis'
             /\ request'.method = "GET"
                  => IF NameAsked \in DOMAIN redis
                     THEN response'.status = 200 /\ response'.body = redis[NameAsked]
                     ELSE response'.status = 404]_vars

\* The string begins with the prefix.
HasPrefix(string, prefix) ==
    /\ Len(string) >= Len(prefix)
    /\ SubSeq(string, 1, Len(prefix)) = prefix

\* The names in the store that belong to the namespace of sidecar u.
NamesOf(u) == {n \in DOMAIN redis : HasPrefix(n, meta_vm_hash[u] \o <<":">>)}

\* C22: every command a cache handler sends to the store has a key or a
\* pattern that begins with '<vm hash>:' of the sidecar that handled the
\* request, and a request handled by one sidecar leaves the entries of a
\* sidecar with another hash as they are: no command names one of them, no
\* listing shows one of them, none is overwritten and none is deleted.
C22_NamespacedByVmHash ==
    [][nreq' = nreq + 1 =>
          LET v == request'.app
              own == meta_vm_hash[v] \o <<":">>
          IN  /\ \A i \in 1..Len(redisCalls') : HasPrefix(redisCalls'[i].key, own)
              /\ \A k \in response'.keys :
                    /\ own \o k \in DOMAIN redis
                    /\ \A u \in Sidecars :
                          meta_vm_hash[u] # meta_vm_hash[v] => own \o k \notin NamesOf(u)
              /\ \A u \in Sidecars :
                    meta_vm_hash[u] # meta_vm_hash[v] =>
                        \A n \in NamesOf(u) :
                            /\ n \in DOMAIN redis' /\ redis'[n] = redis[n]
                            /\ ~HasPrefix(n, own)
                            /\ \A i \in 1..Len(redisCalls') : redisCalls'[i].key # n]_vars

C22_Witness ==
    /\ meta_vm_hash["vm1"] = <<"a">> /\ meta_vm_hash["vm2"] = <<"a", "b">>
    /\ redis # <<>> /\ NamesOf("vm2") = DOMAIN redis
    /\ request.app = "vm1" /\ request.route = "/cache/"
    /\ request.pattern = <<"a", "*">>
    /\ response.status = 200 /\ response.keys = {}
    /\ Len(redisCalls) = 1

\* C23: what load_updated_message returns is the pair of the updated and
\* the original descriptor: the original is the descriptor as the store
\* holds it, in the updated one every part marked use_latest has the latest
\* amendment of its ref as ref and every other part is as fetched; and when
\* the store answers not-found the call raises a 404 error, when it cannot
\* be reached a 503 error, and no pair is returned.
C23_UpdatedAndOriginal ==
    /\ original_message \in {NoMessage, stored}
    /\ mpc = "returned" =>
          /\ outcome.kind = "pair"
          /\ outcome.original = stored
          /\ faults = <<>>
          /\ Len(outcome.updated.volumes) = Len(stored.volumes)
          /\ \A i \in 1..Len(Gathered(stored)) :
                LET old == Gathered(stored)[i]
                    new == Gathered(outcome.updated)[i]
                IN  IF old.type = "ref" /\ old.use_latest
                    THEN new = Part("ref", Latest(old.ref), TRUE)
                    ELSE new = old
    /\ faults # <<>> =>
          /\ mpc = "raised"
          /\ outcome.kind # "pair"
          /\ outcome.updated = NoMessage /\ outcome.original = NoMessage
          /\ faults[1] = "404" => outcome.status = 404
          /\ faults[1] = "ClientConnectorError" => outcome.status = 503
    /\ outcome.kind = "pair" => mpc = "returned"

C23_Witness ==
    /\ mpc = "returned"
    /\ stored.runtime.use_latest /\ ~stored.code.use_latest
    /\ stored.data = NonePart
    /\ Len(stored.volumes) = 2
    /\ stored.volumes[1].type = "ephemeral"
    /\ stored.volumes[2].use_latest
    /\ outcome.updated.runtime.ref = "h1_amended"
    /\ outcome.updated.code.ref = "h2"
    /\ outcome.updated.volumes[2].ref = "h1_amended"
    /\ outcome.original.runtime.ref = "h1"
====
